---- MODULE Spec2Model ----
(***************************************************************************)
(* Model of the inference handler dispatch layer of the tsfm inference     *)
(* service (services/inference/tsfminference/inference_handler.py):        *)
(*   - InferenceHandler.run and ForecastingInferenceHandler.run,           *)
(*   - the output encoder encode_dataframe.                                *)
(* Python values are modelled as records tagged by a "kind" field, so that *)
(* a pandas Timestamp, the string isoformat() makes of it, an int and None *)
(* are all different values.                                               *)
(***************************************************************************)
EXTENDS Integers, Sequences, FiniteSets, TLC

VARIABLES
    handler_class,  \* class of the handler instance: "InferenceHandler" or "ForecastingInferenceHandler"
    model_id,       \* self.model_id
    prepared,       \* self.prepared
    now,            \* the wall clock that datetime.datetime.now() reads
    args,           \* the arguments of the last run call
    ret,            \* how the last run call ended: returned (payload, error), or raised
    log,            \* the steps the last run call executed, in order
    frame,          \* encoder: the DataFrame object the caller passes to encode_dataframe
    calls           \* encoder: the encode_dataframe calls made on frame, in order

vars == <<handler_class, model_id, prepared, now, args, ret, log, frame, calls>>
handlerVars == <<handler_class, model_id, prepared, now, args, ret, log>>
encoderVars == <<frame, calls>>

-----------------------------------------------------------------------------
(* Bounds of the model *)

\* largest number of rows of a table
MaxRows == 2
\* instants (and integer cell values) range over 0..MaxInstant
MaxInstant == 1
\* data-point counts returned by the model-specific code range over -1..MaxCount
MaxCount == 0
\* the clock advances with every run call, up to MaxNow: at most MaxNow run calls
MaxNow == 2
\* number of successive encode_dataframe calls on one table
MaxEncodeCalls == 2

-----------------------------------------------------------------------------
(* Python values *)

None == [kind |-> "None"]
Str(s) == [kind |-> "str", s |-> s]
PyInt(n) == [kind |-> "int", n |-> n]
\* a pandas Timestamp of instant t
Timestamp(t) == [kind |-> "Timestamp", t |-> t]
\* the ISO-8601 string of instant t
IsoStr(t) == [kind |-> "str", iso |-> t]

\* exception objects; isException: the class derives from Exception (and not
\* only from BaseException, as KeyboardInterrupt and SystemExit do)
Exc(cls, isExc) == [kind |-> "exception", cls |-> cls, isException |-> isExc]
RuntimeError_NotPrepared == Exc("RuntimeError: Service wrapper has not yet been prepared", TRUE)
AttributeError == Exc("AttributeError", TRUE)
TypeError == Exc("TypeError", TRUE)
KeyError == Exc("KeyError", TRUE)
ValueError == Exc("ValueError", TRUE)
KeyboardInterrupt == Exc("KeyboardInterrupt", FALSE)

-----------------------------------------------------------------------------
(* pandas tables *)

ColNames == {"ts", "y"}
DatetimeDtype == "datetime64[ns]"
InputDtypes == {DatetimeDtype, "int64"}
Instants == 0..MaxInstant

Cell(dtype, v) == IF dtype = DatetimeDtype THEN Timestamp(v) ELSE PyInt(v)

Series(name, dtype, values) == [name |-> name, dtype |-> dtype, values |-> values]
DataFrame(columns) == [kind |-> "DataFrame", columns |-> columns]

\* sequences of length n over S
SeqsOfLen(S, n) == [1..n -> S]

\* all columns named name with n rows
SeriesOf(name, n) ==
    { Series(name, d, [i \in 1..n |-> Cell(d, vs[i])]) :
        d \in InputDtypes, vs \in SeqsOfLen(Instants, n) }

\* all tables: at most two distinctly named columns, all of the same length
Frames ==
    {DataFrame(<<>>)}
    \cup UNION { { DataFrame(<<c>>) : c \in SeriesOf(a, n) } : a \in ColNames, n \in 0..MaxRows }
    \cup UNION { { DataFrame(<<c1, c2>>) : c1 \in SeriesOf(ab[1], n), c2 \in SeriesOf(ab[2], n) } :
                   ab \in { p \in ColNames \X ColNames : p[1] # p[2] }, n \in 0..MaxRows }

IsDataFrame(x) == x.kind = "DataFrame"
NRows(df) == IF df.columns = <<>> THEN 0 ELSE Len(df.columns[1].values)
ColIndex(df, name) == { i \in 1..Len(df.columns) : df.columns[i].name = name }
HasColumn(df, name) == ColIndex(df, name) # {}
Column(df, name) == df.columns[CHOOSE i \in ColIndex(df, name) : TRUE]

\* pd.api.types.is_datetime64_any_dtype
is_datetime64_any_dtype(series) == series.dtype = DatetimeDtype

\* x.isoformat(): defined on a Timestamp only
HasIsoformat(x) == x.kind = "Timestamp"
isoformat(x) == IsoStr(x.t)

\* series.apply(lambda x: x.isoformat()): an empty series comes back with its
\* dtype, any other as an object series of the results; raises AttributeError
\* when a value has no isoformat method
ApplyRaises(series) == \E i \in 1..Len(series.values) : ~HasIsoformat(series.values[i])
apply_isoformat(series) ==
    IF Len(series.values) = 0 THEN series
    ELSE [series EXCEPT !.dtype = "object",
                        !.values = [i \in 1..Len(series.values) |-> isoformat(series.values[i])]]

\* result[name] = series
SetColumn(df, name, series) ==
    [df EXCEPT !.columns = [i \in 1..Len(df.columns) |->
                              IF df.columns[i].name = name THEN series ELSE df.columns[i]]]

\* result.to_dict(orient="list"): the dict, in insertion order, of column name -> list of values
to_dict_list(df) ==
    [kind |-> "dict",
     items |-> [i \in 1..Len(df.columns) |-> [key |-> df.columns[i].name, value |-> df.columns[i].values]]]

-----------------------------------------------------------------------------
(* The output encoder *)

\* the timestamp_column argument: None, or a string
TsArgs == {None, Str("")} \cup { Str(c) : c \in ColNames }
Truthy(a) == a # None /\ a # Str("")

EncodeOut(exc, df, value) == [exc |-> exc, frame |-> df, ret |-> value]

\* mutant: the table is not rewritten in place, only the returned mapping is
encode_dataframe_copy(result, timestamp_column) ==
    IF ~IsDataFrame(result)
    THEN EncodeOut(IF Truthy(timestamp_column) THEN TypeError ELSE AttributeError, result, None)
    ELSE IF Truthy(timestamp_column) /\ ~HasColumn(result, timestamp_column.s)
    THEN EncodeOut(KeyError, result, None)
    ELSE IF Truthy(timestamp_column) /\ is_datetime64_any_dtype(Column(result, timestamp_column.s))
    THEN EncodeOut(None, result,
           to_dict_list(SetColumn(result, timestamp_column.s,
                                  apply_isoformat(Column(result, timestamp_column.s)))))
    ELSE EncodeOut(None, result, to_dict_list(result))

\* mutant: the dtype test is missing, the column is rewritten whenever it is named
encode_dataframe_nocheck(result, timestamp_column) ==
    IF ~IsDataFrame(result)
    THEN EncodeOut(IF Truthy(timestamp_column) THEN TypeError ELSE AttributeError, result, None)
    ELSE IF Truthy(timestamp_column) /\ ~HasColumn(result, timestamp_column.s)
    THEN EncodeOut(KeyError, result, None)
    ELSE IF Truthy(timestamp_column)
    THEN IF ApplyRaises(Column(result, timestamp_column.s))
         THEN EncodeOut(AttributeError, result, None)
         ELSE LET rewritten == SetColumn(result, timestamp_column.s,
                                         apply_isoformat(Column(result, timestamp_column.s)))
              IN EncodeOut(None, rewritten, to_dict_list(rewritten))
    ELSE EncodeOut(None, result, to_dict_list(result))

\* encode_dataframe(result, timestamp_column): what it raises (None: nothing),
\* the table object afterwards, and the mapping returned
encode_dataframe(result, timestamp_column) ==
    IF ~IsDataFrame(result)
    THEN \* None[...] is a TypeError, None.to_dict an AttributeError
         EncodeOut(IF Truthy(timestamp_column) THEN TypeError ELSE AttributeError, result, None)
    ELSE IF Truthy(timestamp_column) /\ ~HasColumn(result, timestamp_column.s)
    THEN EncodeOut(KeyError, result, None)
    ELSE IF Truthy(timestamp_column) /\ is_datetime64_any_dtype(Column(result, timestamp_column.s))
    THEN LET rewritten == SetColumn(result, timestamp_column.s,
                                    apply_isoformat(Column(result, timestamp_column.s)))
         IN EncodeOut(None, rewritten, to_dict_list(rewritten))
    ELSE EncodeOut(None, result, to_dict_list(result))

-----------------------------------------------------------------------------
(* The handler: inputs of run, and what the model-specific code may do *)

ModelIds == {"m1"}
HandlerClasses == {"InferenceHandler", "ForecastingInferenceHandler"}

\* value of row i of a table the model-specific code handles
RowValue(i) == (i - 1) % (MaxInstant + 1)
\* the table with a datetime column ts and an integer column y, of n rows
TsYFrame(n) ==
    DataFrame(<<Series("ts", DatetimeDtype, [i \in 1..n |-> Timestamp(RowValue(i))]),
                Series("y", "int64", [i \in 1..n |-> PyInt(RowValue(i))])>>)

\* historical data and future data the caller passes
DataArgs == {TsYFrame(1), TsYFrame(MaxRows)}
FutureArgs == {None, TsYFrame(1)}
Schema1 == [kind |-> "ForecastingMetadataInput", timestamp_column |-> "ts"]
Parameters1 == [kind |-> "ForecastingParameters", prediction_length |-> 1]
\* the (schema, parameters) pairs the caller passes; both default to None
SchemaParameterArgs == {<<None, None>>, <<Schema1, Parameters1>>}

\* how a call of model-specific code ends
Return(v) == [kind |-> "return", value |-> v]
Raise(e) == [kind |-> "raise", exc |-> e]
ModelExceptions == {ValueError, KeyboardInterrupt}

\* _run: returns a table (or, against its annotation, None), or raises
RunOutcomes ==
    { Return(TsYFrame(n)) : n \in 0..MaxRows }
    \cup {Return(None)}
    \cup { Raise(e) : e \in ModelExceptions }

\* a Dict[str, int], as the sequence of its items
CountNames == <<"input_data_points", "output_data_points">>
CountValues == -1..MaxCount
Item(k, v) == [key |-> k, value |-> v]
CountMappings ==
    {<<>>}
    \cup { <<Item(CountNames[1], v)>> : v \in CountValues }
    \cup { <<Item(CountNames[2], v)>> : v \in CountValues }
    \cup { <<Item(CountNames[1], v), Item(CountNames[2], w)>> : v \in CountValues, w \in CountValues }

\* _calculate_data_point_counts: returns a mapping, or raises
CountOutcomes ==
    { Return(m) : m \in CountMappings } \cup { Raise(e) : e \in ModelExceptions }

\* the count routine is reached only with a table from _run: otherwise it has
\* no outcome to choose
NotCalled == [kind |-> "notcalled"]
CountOutcomesAfter(o_run) ==
    IF o_run.kind = "return" /\ IsDataFrame(o_run.value) THEN CountOutcomes ELSE {NotCalled}

NoCall == [kind |-> "nocall"]
\* run returned the pair (payload, error)
Returned(payload, error) == [kind |-> "returned", payload |-> payload, error |-> error]
\* run raised e to its caller
Propagated(e) == [kind |-> "raised", exc |-> e]

\* one step of a run call: the arguments passed, the exception the step
\* raised (None: it returned) and the value it returned
Step(name, call, exc, value) == [step |-> name, call |-> call, exc |-> exc, value |-> value]
OutcomeExc(o) == IF o.kind = "raise" THEN o.exc ELSE None
OutcomeValue(o) == IF o.kind = "return" THEN o.value ELSE None

\* what a run call did: how it ended and the steps it executed
Ran(r, lg) == [ret |-> r, log |-> lg]

\* PredictOutput(model_id=..., created_at=..., results=..., **counts)
PredictOutput(mid, created_at, results, counts) ==
    [kind |-> "PredictOutput", model_id |-> mid, created_at |-> created_at,
     results |-> results, counts |-> counts]

-----------------------------------------------------------------------------
(* InferenceHandler.run *)

\* if not self.prepared: return None, RuntimeError(...)
NotPreparedReturn == Ran(Returned(None, RuntimeError_NotPrepared), <<>>)

\* mutant: the failure is swallowed
ExceptClause_swallow(e, lg) ==
    IF e.isException THEN Ran(Returned(None, None), lg) ELSE Ran(Propagated(e), lg)

\* mutant: the exception is replaced by a generic one
ExceptClause_wrap(e, lg) ==
    IF e.isException THEN Ran(Returned(None, Exc("RuntimeError: inference failed", TRUE)), lg)
    ELSE Ran(Propagated(e), lg)

\* except Exception as e: return None, e
\* (an exception that does not derive from Exception is not caught)
ExceptClause(e, lg) ==
    IF e.isException THEN Ran(Returned(None, e), lg) ELSE Ran(Propagated(e), lg)

\* mutant: one result entry per row of the table
SuccessReturn_perRow(result, encoded_result, counts, lg) ==
    Ran(Returned(PredictOutput(model_id, IsoStr(now),
                               [i \in 1..NRows(result) |-> encoded_result], counts), None),
        Append(lg, Step("PredictOutput", None, None, None)))

\* return PredictOutput(model_id=str(self.model_id), created_at=now().isoformat(),
\*                      results=[encoded_result], **counts), None
SuccessReturn(result, encoded_result, counts, lg) ==
    Ran(Returned(PredictOutput(model_id, IsoStr(now), <<encoded_result>>, counts), None),
        Append(lg, Step("PredictOutput", None, None, None)))

RunStep(data, schema, parameters, kwargs, o_run) ==
    Step("_run", [data |-> data, schema |-> schema, parameters |-> parameters, kwargs |-> kwargs],
         OutcomeExc(o_run), OutcomeValue(o_run))
EncodeStep(result, enc) ==
    Step("encode_dataframe", [result |-> result, timestamp_column |-> None], enc.exc, enc.ret)
CountStep(data, result, schema, parameters, kwargs, o_counts) ==
    Step("_calculate_data_point_counts",
         [data |-> data, output_data |-> result, schema |-> schema,
          parameters |-> parameters, kwargs |-> kwargs],
         OutcomeExc(o_counts), OutcomeValue(o_counts))

\* mutant: _run is tried a second time when it raises
TryBody_retry(data, schema, parameters, kwargs, o_run, o_counts) ==
    LET s1 == RunStep(data, schema, parameters, kwargs, o_run)
    IN IF o_run.kind = "raise" THEN ExceptClause(o_run.exc, <<s1, s1>>)
       ELSE LET result == o_run.value
                enc == encode_dataframe(result, None)
                s2 == EncodeStep(result, enc)
            IN IF enc.exc # None THEN ExceptClause(enc.exc, <<s1, s2>>)
               ELSE LET s3 == CountStep(data, enc.frame, schema, parameters, kwargs, o_counts)
                    IN IF o_counts.kind = "raise" THEN ExceptClause(o_counts.exc, <<s1, s2, s3>>)
                       ELSE SuccessReturn(enc.frame, enc.ret, o_counts.value, <<s1, s2, s3>>)

\* the try block: _run, encode_dataframe(result), _calculate_data_point_counts,
\* PredictOutput; the first exception ends it in the except clause
TryBody(data, schema, parameters, kwargs, o_run, o_counts) ==
    LET s1 == RunStep(data, schema, parameters, kwargs, o_run)
    IN IF o_run.kind = "raise" THEN ExceptClause(o_run.exc, <<s1>>)
       ELSE LET result == o_run.value
                enc == encode_dataframe(result, None)
                s2 == EncodeStep(result, enc)
            IN IF enc.exc # None THEN ExceptClause(enc.exc, <<s1, s2>>)
               ELSE LET s3 == CountStep(data, enc.frame, schema, parameters, kwargs, o_counts)
                    IN IF o_counts.kind = "raise" THEN ExceptClause(o_counts.exc, <<s1, s2, s3>>)
                       ELSE SuccessReturn(enc.frame, enc.ret, o_counts.value, <<s1, s2, s3>>)

\* mutant: the prepared flag is not tested
InferenceHandler_run_nocheck(data, schema, parameters, kwargs, o_run, o_counts) ==
    TryBody(data, schema, parameters, kwargs, o_run, o_counts)

\* InferenceHandler.run(data, schema, parameters, **kwargs), with the outcomes
\* o_run and o_counts of the model-specific calls it makes
InferenceHandler_run(data, schema, parameters, kwargs, o_run, o_counts) ==
    IF ~prepared THEN NotPreparedReturn
    ELSE TryBody(data, schema, parameters, kwargs, o_run, o_counts)

\* mutant: future_data is not passed on
ForecastingInferenceHandler_run_drop(data, future_data, schema, parameters, o_run, o_counts) ==
    InferenceHandler_run(data, schema, parameters, <<>>, o_run, o_counts)

\* ForecastingInferenceHandler.run:
\* return super().run(data, future_data=future_data, schema=schema, parameters=parameters, **kwargs)
ForecastingInferenceHandler_run(data, future_data, schema, parameters, o_run, o_counts) ==
    InferenceHandler_run(data, schema, parameters, <<Item("future_data", future_data)>>,
                         o_run, o_counts)

-----------------------------------------------------------------------------
(* Operations on a handler *)

\* the effect of a run call on the state: only its result is new
Finish(r, a) ==
    /\ ret' = r.ret
    /\ log' = r.log
    /\ args' = a
    /\ now' = now + 1
    /\ UNCHANGED <<handler_class, model_id, prepared, frame, calls>>

\* the preparation step: the model is loaded and the flag set
Prepare ==
    /\ ~prepared
    /\ prepared' = TRUE
    /\ UNCHANGED <<handler_class, model_id, now, args, ret, log, frame, calls>>

\* handler.run(data, schema, parameters) on an InferenceHandler
Run(data, schema, parameters, o_run, o_counts) ==
    /\ handler_class = "InferenceHandler"
    /\ now < MaxNow
    /\ Finish(InferenceHandler_run(data, schema, parameters, <<>>, o_run, o_counts),
              [data |-> data, schema |-> schema, parameters |-> parameters])

\* handler.run(data, future_data, schema, parameters) on a ForecastingInferenceHandler
ForecastingRun(data, future_data, schema, parameters, o_run, o_counts) ==
    /\ handler_class = "ForecastingInferenceHandler"
    /\ now < MaxNow
    /\ Finish(ForecastingInferenceHandler_run(data, future_data, schema, parameters, o_run, o_counts),
              [data |-> data, future_data |-> future_data, schema |-> schema,
               parameters |-> parameters])

\* one encode_dataframe call on the caller's table
Encode(timestamp_column) ==
    /\ Len(calls) < MaxEncodeCalls
    /\ LET r == encode_dataframe(frame, timestamp_column)
       IN /\ frame' = r.frame
          /\ calls' = Append(calls, [timestamp_column |-> timestamp_column,
                                     before |-> frame, after |-> r.frame,
                                     exc |-> r.exc, ret |-> r.ret])
    /\ UNCHANGED handlerVars

\* a handler as load constructs it: not prepared, no run call made
Loaded ==
    /\ handler_class \in HandlerClasses
    /\ model_id \in ModelIds
    /\ prepared = FALSE
    /\ now = 0
    /\ args = None
    /\ ret = NoCall
    /\ log = <<>>

Init ==
    /\ Loaded
    /\ frame = DataFrame(<<>>)
    /\ calls = <<>>

Next ==
    \/ Prepare
    \/ \E d \in DataArgs, sp \in SchemaParameterArgs, o_run \in RunOutcomes :
         \E o_counts \in CountOutcomesAfter(o_run) :
            Run(d, sp[1], sp[2], o_run, o_counts)
    \/ \E d \in DataArgs, f \in FutureArgs, sp \in SchemaParameterArgs, o_run \in RunOutcomes :
         \E o_counts \in CountOutcomesAfter(o_run) :
            ForecastingRun(d, f, sp[1], sp[2], o_run, o_counts)

Spec == Init /\ [][Next]_vars

\* the encoder alone: some table in the caller's hands, no handler at work
InitEncode ==
    /\ Loaded
    /\ handler_class = "InferenceHandler"
    /\ frame \in Frames
    /\ calls = <<>>

NextEncode == \E a \in TsArgs : Encode(a)

SpecEncode == InitEncode /\ [][NextEncode]_vars

-----------------------------------------------------------------------------
(* Properties of run, checked under Spec *)

IsSuccess == ret.kind = "returned" /\ ret.payload # None
ModelSteps == {"_run", "_calculate_data_point_counts"}
StepOrder == <<"_run", "encode_dataframe", "_calculate_data_point_counts", "PredictOutput">>
HasPredictOutput == \E i \in 1..Len(log) : log[i].step = "PredictOutput"
\* the exceptions the model-specific code raised during the last run call
RaisedByModelCode ==
    { log[i].exc : i \in { j \in 1..Len(log) : log[j].step \in ModelSteps /\ log[j].exc # None } }

\* C1: a run call on a handler that is not prepared returns (None, not-prepared
\* error), invokes neither _run nor _calculate_data_point_counts, and leaves
\* prepared and model_id as they were; so does every further call before
\* preparation.
C1_NotPreparedRunFails ==
    [][(~prepared /\ now' # now) =>
          /\ ret' = Returned(None, RuntimeError_NotPrepared)
          /\ log' = <<>>
          /\ prepared' = prepared
          /\ model_id' = model_id]_vars

\* two run calls were made before any preparation, and the second failed too
C1_Witness ==
    /\ ~prepared
    /\ now = 2
    /\ ret = Returned(None, RuntimeError_NotPrepared)
    /\ log = <<>>

\* C2: whenever run returns, exactly one of (payload, error) is non-null: a
\* PredictOutput with a null error, or a null payload with an exception.
C2_ExactlyOneNonNull ==
    ret.kind = "returned" =>
        \/ /\ ret.payload # None
           /\ ret.payload.kind = "PredictOutput"
           /\ ret.error = None
        \/ /\ ret.payload = None
           /\ ret.error # None
           /\ ret.error.kind = "exception"

\* a prepared run that failed in the count routine, after _run and the encoder succeeded
C2_Witness ==
    /\ prepared
    /\ Len(log) = 3
    /\ log[3].exc = ValueError
    /\ ret.kind = "returned"
    /\ ret.payload = None
    /\ ret.error = ValueError

C4_NoDatetimeInResults ==
    IsSuccess =>
        \A r \in 1..Len(ret.payload.results) :
            \A i \in 1..Len(ret.payload.results[r].items) :
                \A k \in 1..Len(ret.payload.results[r].items[i].value) :
                    ret.payload.results[r].items[i].value[k].kind # "Timestamp"

\* C5 as stated: in a successful run both count fields are present in the
\* PredictOutput and are non-negative integers, whatever mapping the count
\* routine returned.
C5_CountsPresentNonNegative ==
    IsSuccess =>
        \A n \in {CountNames[1], CountNames[2]} :
            \E i \in 1..Len(ret.payload.counts) :
                /\ ret.payload.counts[i].key = n
                /\ ret.payload.counts[i].value \in Nat

\* C6: ForecastingInferenceHandler.run on a prepared handler passes the
\* caller's future_data, data, schema and parameters unchanged to _run and to
\* _calculate_data_point_counts; with future_data None and no step raising,
\* the call returns success.
C6_FutureDataForwarded ==
    [][(prepared /\ now' # now /\ handler_class = "ForecastingInferenceHandler") =>
          /\ Len(log') >= 1
          /\ log'[1].step = "_run"
          /\ \A i \in 1..Len(log') :
                log'[i].step \in ModelSteps =>
                    /\ log'[i].call.kwargs = <<Item("future_data", args'.future_data)>>
                    /\ log'[i].call.data = args'.data
                    /\ log'[i].call.schema = args'.schema
                    /\ log'[i].call.parameters = args'.parameters
          /\ (args'.future_data = None /\ \A i \in 1..Len(log') : log'[i].exc = None) =>
                /\ ret'.kind = "returned"
                /\ ret'.payload # None
                /\ ret'.error = None
                /\ \E i \in 1..Len(log') : log'[i].step = "_calculate_data_point_counts"]_vars

\* a forecasting run without future data succeeded, None having reached both routines
C6_Witness ==
    /\ handler_class = "ForecastingInferenceHandler"
    /\ IsSuccess
    /\ args.future_data = None
    /\ log[1].call.kwargs = <<Item("future_data", None)>>
    /\ log[3].call.kwargs = <<Item("future_data", None)>>
    /\ NRows(args.data) = MaxRows

\* C7: in a successful run results has exactly one element, whatever the row
\* counts of the input and of the table _run returned; that element has the
\* columns of the table _run returned, each with as many entries as that
\* table has rows.
C7_SingleResult ==
    IsSuccess =>
        LET table == log[1].value
            results == ret.payload.results
        IN /\ Len(results) = 1
           /\ results[1].kind = "dict"
           /\ Len(results[1].items) = Len(table.columns)
           /\ \A i \in 1..Len(table.columns) :
                /\ results[1].items[i].key = table.columns[i].name
                /\ Len(results[1].items[i].value) = NRows(table)

\* a successful run whose _run returned a table of zero rows, on input with rows
C7_Witness ==
    /\ IsSuccess
    /\ Len(log[1].value.columns) = 2
    /\ NRows(log[1].value) = 0
    /\ NRows(args.data) = MaxRows
    /\ Len(ret.payload.results) = 1

\* C10: a run call on a prepared handler executes _run, the encoder, the count
\* routine and the PredictOutput construction in that order, each at most
\* once; _run always; a step that fails is the last one executed; the call
\* stops early only at a failure and succeeds exactly when all four ran.
C10_SequentialSingleAttempt ==
    [][(prepared /\ now' # now) =>
          /\ Len(log') \in 1..4
          /\ \A i \in 1..Len(log') : log'[i].step = StepOrder[i]
          /\ \A i \in 1..Len(log') : log'[i].exc # None => i = Len(log')
          /\ Len(log') < 4 => log'[Len(log')].exc # None
          /\ (ret'.kind = "returned" /\ ret'.payload # None) <=> Len(log') = 4]_vars

\* a run that failed in the encoder: the count routine and PredictOutput never ran
C10_Witness ==
    /\ prepared
    /\ Len(log) = 2
    /\ log[1].exc = None
    /\ log[2].step = "encode_dataframe"
    /\ log[2].exc = AttributeError
    /\ ret = Returned(None, AttributeError)

-----------------------------------------------------------------------------
(* Properties of encode_dataframe, checked under SpecEncode *)

\* the call names a column of the table, or names none
WellNamed(c) == Truthy(c.timestamp_column) => HasColumn(c.before, c.timestamp_column.s)
\* the call names a datetime-typed column
NamesDatetime(c, col) ==
    /\ Truthy(c.timestamp_column)
    /\ col.name = c.timestamp_column.s
    /\ col.dtype = DatetimeDtype

\* C8: encode_dataframe returns one key per column, in column order, with the
\* values in row order (empty sequences for a table of zero rows); the values
\* of a datetime-typed timestamp_column are their ISO-8601 strings, in the
\* mapping and in the table itself; all other values pass through unchanged.
C8_EncodeContract ==
    \A k \in 1..Len(calls) :
        LET c == calls[k]
            cols == c.before.columns
        IN WellNamed(c) =>
            /\ c.exc = None
            /\ c.ret.kind = "dict"
            /\ Len(c.ret.items) = Len(cols)
            /\ Len(c.after.columns) = Len(cols)
            /\ \A i \in 1..Len(cols) :
                /\ c.ret.items[i].key = cols[i].name
                /\ c.after.columns[i].name = cols[i].name
                /\ Len(c.ret.items[i].value) = NRows(c.before)
                /\ Len(c.after.columns[i].values) = NRows(c.before)
                /\ \A r \in 1..NRows(c.before) :
                    IF NamesDatetime(c, cols[i])
                    THEN /\ c.ret.items[i].value[r] = IsoStr(cols[i].values[r].t)
                         /\ c.after.columns[i].values[r] = IsoStr(cols[i].values[r].t)
                    ELSE /\ c.ret.items[i].value[r] = cols[i].values[r]
                         /\ c.after.columns[i].values[r] = cols[i].values[r]

\* a table of two columns and MaxRows rows was encoded with its datetime column named
C8_Witness ==
    /\ Len(calls) >= 1
    /\ calls[1].timestamp_column = Str("ts")
    /\ Len(calls[1].before.columns) = 2
    /\ NRows(calls[1].before) = MaxRows
    /\ Column(calls[1].before, "ts").dtype = DatetimeDtype
    /\ Column(calls[1].before, "y").dtype = "int64"
    /\ calls[1].exc = None
    /\ Column(frame, "ts").values[1].kind = "str"

\* C9: two successive encode_dataframe calls on the same table with the same
\* timestamp_column return the same mapping; the second does not fail.
C9_EncodeIdempotent ==
    \A k \in 1..(Len(calls) - 1) :
        (calls[k].timestamp_column = calls[k + 1].timestamp_column /\ calls[k].exc = None) =>
            /\ calls[k + 1].exc = None
            /\ calls[k + 1].ret = calls[k].ret

\* a datetime column with rows was encoded twice under its name
C9_Witness ==
    /\ Len(calls) >= 2
    /\ calls[1].timestamp_column = Str("ts")
    /\ calls[2].timestamp_column = Str("ts")
    /\ HasColumn(calls[1].before, "ts")
    /\ Column(calls[1].before, "ts").dtype = DatetimeDtype
    /\ NRows(calls[1].before) = MaxRows
    /\ calls[1].before # calls[2].before
    /\ calls[2].ret = calls[1].ret

====
